---- MODULE Spec2Model ----
(***************************************************************************)
(* opencode-automation: the sequential prompt runner.                      *)
(*                                                                         *)
(* The repository holds two variants of the same CLI.  src/src/cli.ts owns *)
(* an OpenCode instance (createOpencode, closed after the loop);           *)
(* src/unnamed/part_001 connects to a running server                       *)
(* (createOpencodeClient) and is handed the client.  runPrompt and         *)
(* formatErrorDetails are identical in both.  The variable ownsInstance    *)
(* selects the variant.                                                    *)
(*                                                                         *)
(* One action per step between two awaits of main, runPromptsSequential    *)
(* and runPrompt.  The session client is the environment: every call       *)
(* returns a response drawn from a small set, or raises a fault.           *)
(*                                                                         *)
(* Prompt sources covered: prompts given as arguments and a single prompt  *)
(* file.  Faults are thrown Errors with their cause chain, or thrown        *)
(* primitives.                                                             *)
(*                                                                         *)
(* Representation:                                                         *)
(*   - an optional value (undefined / absent field) is a sequence of       *)
(*     length 0 or 1;                                                      *)
(*   - sessionId is 0 while undefined, a positive server-assigned id       *)
(*     otherwise (the server hands out fresh ids);                         *)
(*   - a text built by concatenation or join is the sequence of its parts, *)
(*     and so is the text JSON.stringify produces.                         *)
(***************************************************************************)
EXTENDS Integers, Sequences, FiniteSets, TLC

(* ------------------------------ bounds --------------------------------- *)

\* Longest prompt list the prompt source yields.
MaxPrompts == 3

\* Prompt bodies given on the command line; a text is the sequence of its
\* characters.
Contents == {<<"a">>, <<"b">>}

\* Raw contents of a prompt file, before trim.
RawFiles ==
    { <<"a">>, <<" ", "b", "\n">>, <<" ", "\n">>, <<>>,
      <<"\t", "a", "\r", "\n">>, <<"\r", "\n">>, <<"a", "\t", "b", "\f">> }

(* --------------------------- program constants -------------------------- *)

ERROR_TYPE_NONE == "none"
ERROR_TYPE_TOOL == "tool"
ERROR_TYPE_SDK == "sdk"

VARIABLES
    ownsInstance,     \* TRUE: src/src/cli.ts, FALSE: src/unnamed/part_001
    stopOnSdkError,   \* SequentialRunOptions.stopOnSdkError
    stopOnToolError,  \* SequentialRunOptions.stopOnToolError
    verbose,          \* RunOptions.verbose
    prompts,          \* PromptEntry[] collected by main
    pc,               \* position of the single thread of control
    opencode,         \* "none" | "created" | "failed" | "closed"
    i,                \* loop variable of runPromptsSequential (0-based)
    sessionId,        \* runPrompt's sessionId, 0 = undefined
    result,           \* RunPromptResult of the current runPrompt call
    completed,        \* RunSummary counters
    toolErrors,
    sdkErrors,
    exitCode,         \* argument of process.exit, -1 while running
    \* history of the run (what an observer of the client and of the
    \* process sees); never read by the program
    calls,            \* client calls made, in order
    attempted,        \* indices (1-based) of the prompts handed to runPrompt
    outcomes,         \* errorType returned by each runPrompt call
    stopped,          \* the loop was left by a break
    createResp,       \* responses of the current runPrompt's calls
    promptResp,
    deleteResp,
    listing,          \* entries main read from the --dir directory, in the
                      \* order readdirSync returned them; <<>> before that
    plainValues       \* the environment of the run: TRUE when every value the
                      \* client returns or throws is one JSON.stringify
                      \* accepts, FALSE when it can be any value

vars == <<plainValues, listing, ownsInstance, stopOnSdkError, stopOnToolError,
          verbose,
          prompts, pc,
          opencode, i, sessionId, result, completed, toolErrors, sdkErrors,
          exitCode, calls, attempted, outcomes, stopped, createResp,
          promptResp, deleteResp>>

(* ------------------------- values of the client ------------------------ *)

\* A thrown value and its cause chain, outermost first.  An element is an
\* Error (kind "Error", with the system error properties it carries, "" when
\* absent), another object (kind "object", a plain {message}) or a primitive
\* (kind "primitive", message holding its text); only an Error has a cause.
\* An object that JSON.stringify cannot serialise (it refers to itself or
\* holds a BigInt) has kind "circular".
Thrown_(kind, message, code, syscall, hostname, port) ==
    [kind |-> kind, message |-> message, code |-> code, syscall |-> syscall,
     hostname |-> hostname, port |-> port]

NetworkFault ==
    << Thrown_("Error", "fetch failed", "", "", "", ""),
       Thrown_("Error", "connect ECONNREFUSED", "ECONNREFUSED", "connect",
               "localhost", "4096") >>

TextFault == << Thrown_("primitive", "timeout", "", "", "", "") >>

\* A thrown object that is not an Error.
ObjectFault == << Thrown_("object", "busy", "", "", "", "") >>

\* A thrown object that is not an Error and that JSON.stringify rejects.
CircularFault == << Thrown_("circular", "self", "", "", "", "") >>

\* The values a call of the client or of the instance throws.
Faults ==
    IF plainValues THEN {NetworkFault, TextFault, ObjectFault}
    ELSE {NetworkFault, TextFault, ObjectFault, CircularFault}

NoResponse == [kind |-> "none", error |-> <<>>, data |-> <<>>, fault |-> <<>>]

Returned(error, data) ==
    [kind |-> "returned", error |-> error, data |-> data, fault |-> <<>>]

Thrown(f) == [kind |-> "thrown", error |-> <<>>, data |-> <<>>, fault |-> f]

\* Responses of client.session.create; the id of a created session is
\* filled in by the server (FreshId).
CreateErrors == {"server error"}

\* Bodies of a successful prompt submission.  A field is <<>> when absent,
\* <<"">> when present and empty, <<v>> when it holds the text v.
Body(t, c, m, r) ==
    [text |-> t, content |-> c, message |-> m, result |-> r,
     cyclic |-> FALSE, bigint |-> FALSE]

\* A body that JSON.stringify cannot serialise because, next to its four
\* fields, it holds a property self that refers to the body.
CyclicBody(t, c, m, r) ==
    [text |-> t, content |-> c, message |-> m, result |-> r,
     cyclic |-> TRUE, bigint |-> FALSE]

\* A body that JSON.stringify cannot serialise because, next to its four
\* fields, it holds a BigInt.
BigIntBody(t, c, m, r) ==
    [text |-> t, content |-> c, message |-> m, result |-> r,
     cyclic |-> FALSE, bigint |-> TRUE]

PlainBodies ==
    { Body(<<"done">>, <<"other">>, <<>>, <<>>),
      Body(<<"">>, <<>>, <<"msg">>, <<>>),
      Body(<<>>, <<>>, <<>>, <<>>) }

CyclicBodies ==
    { CyclicBody(<<"done">>, <<>>, <<>>, <<>>),
      CyclicBody(<<>>, <<>>, <<>>, <<>>) }

BigIntBodies ==
    { BigIntBody(<<"done">>, <<>>, <<>>, <<>>),
      BigIntBody(<<>>, <<>>, <<>>, <<>>) }

PromptBodies ==
    IF plainValues THEN PlainBodies
    ELSE PlainBodies \cup CyclicBodies \cup BigIntBodies

PromptErrors == {"tests failed"}

PromptResponses ==
    { Returned(<<>>, <<b>>) : b \in PromptBodies }
        \cup { Returned(<<>>, <<>>) }
        \cup { Returned(<<e>>, <<>>) : e \in PromptErrors }
        \cup { Thrown(f) : f \in Faults }

DeleteErrors == {"not found"}

DeleteResponses ==
    { Returned(<<>>, <<>>) }
        \cup { Returned(<<e>>, <<>>) : e \in DeleteErrors }
        \cup { Thrown(f) : f \in Faults }

\* The id the server gives the next session: ids are never handed out twice.
FreshId(cs) == Cardinality({k \in 1..Len(cs) : cs[k].op = "create" /\ cs[k].id # 0}) + 1

CreateResponses(cs) ==
    { Returned(<<>>, <<[id |-> FreshId(cs)]>>), Returned(<<>>, <<>>) }
        \cup { Returned(<<e>>, <<>>) : e \in CreateErrors }
        \cup { Thrown(f) : f \in Faults }

(* ----------------------------- pure helpers ---------------------------- *)

\* JavaScript truthiness of an optional text: present and not "".
Truthy(opt) == Len(opt) > 0 /\ opt[1] # ""

\* JavaScript truthiness of an optional object (error payload, data).
Present(opt) == Len(opt) > 0

\* JSON.stringify of a text.
StringifyText(t) == <<"\"", t, "\"">>

\* JSON.stringify of one field of an object: nothing when undefined.
StringifyField(name, opt) ==
    IF Len(opt) > 0 THEN <<name, ":">> \o StringifyText(opt[1]) ELSE <<>>

\* JSON.stringify of a response body.
StringifyData(data) ==
    <<"{">> \o StringifyField("text", data.text)
           \o StringifyField("content", data.content)
           \o StringifyField("message", data.message)
           \o StringifyField("result", data.result) \o <<"}">>

\* JSON.stringify of a whole response {data, error}.
StringifyResponse(resp) ==
    <<"{">> \o (IF Present(resp.data)
                THEN <<"data", ":">> \o StringifyData(resp.data[1]) ELSE <<>>)
           \o StringifyField("error", resp.error) \o <<"}">>

\* Fault: the traversal goes one cause deeper.
TooDeep_OneDeeper(depth) == depth > 4

\* formatErrorDetails.extractError: if (depth > 3) return.
TooDeep(depth) == depth > 3

RECURSIVE extractError(_, _)
\* formatErrorDetails.extractError on element depth+1 of the chain: the parts
\* pushed for it and for its causes.
extractError(chain, depth) ==
    IF TooDeep(depth) \/ depth >= Len(chain) THEN <<>>
    ELSE LET e == chain[depth + 1]
             head == IF depth = 0 THEN <<e.message>>
                     ELSE <<"Caused by: ", e.message>>
             code == IF e.code # "" THEN <<"  Code: ", e.code>> ELSE <<>>
             sysc == IF e.syscall # "" THEN <<"  Syscall: ", e.syscall>> ELSE <<>>
             host == IF e.hostname # ""
                     THEN <<"  Host: ", e.hostname, ":", e.port>> ELSE <<>>
         IN  IF e.kind = "Error"
             THEN head \o code \o sysc \o host \o extractError(chain, depth + 1)
             ELSE IF e.kind = "object"
             THEN <<"{">> \o StringifyField("message", <<e.message>>) \o <<"}">>
             ELSE <<e.message>>

formatErrorDetails(err, verb) == extractError(err, 0)

RECURSIVE extractErrorThrows(_, _)
\* formatErrorDetails.extractError on element depth+1 of the chain throws:
\* it, or a cause the traversal reaches, is an object that is not an Error
\* and that JSON.stringify(e) rejects.
extractErrorThrows(chain, depth) ==
    IF TooDeep(depth) \/ depth >= Len(chain) THEN FALSE
    ELSE LET e == chain[depth + 1]
         IN  \/ e.kind = "circular"
             \/ e.kind = "Error" /\ extractErrorThrows(chain, depth + 1)

\* formatErrorDetails throws instead of returning a text.
formatErrorDetailsThrows(err, verb) == extractErrorThrows(err, 0)

NoResult == [success |-> FALSE, errorType |-> "unset", resultText |-> <<>>]

\* runPrompt, session creation returned an error payload or no data.
SessionCreationFailed(resp) ==
    [success |-> FALSE, errorType |-> ERROR_TYPE_SDK,
     resultText |-> <<"Session creation failed: ">>
        \o (IF Present(resp.error) THEN StringifyText(resp.error[1])
            ELSE <<"Failed to create session">>)]

\* Fault: an error payload of the submission is classified as an SDK error.
ToolErrorResult_AsSdk(resp) ==
    [success |-> FALSE, errorType |-> ERROR_TYPE_SDK,
     resultText |-> StringifyText(resp.error[1])]

\* runPrompt, prompt submission returned an error payload.
ToolErrorResult(resp) ==
    [success |-> FALSE, errorType |-> ERROR_TYPE_TOOL,
     resultText |-> StringifyText(resp.error[1])]

\* Fault: content is probed before text.
ExtractResultText_ContentFirst(resp) ==
    IF Present(resp.data)
    THEN LET data == resp.data[1] IN
         IF Truthy(data.content) THEN data.content
         ELSE IF Truthy(data.text) THEN data.text
         ELSE IF Truthy(data.message) THEN data.message
         ELSE IF Truthy(data.result) THEN data.result
         ELSE StringifyData(data)
    ELSE StringifyResponse(resp)

\* runPrompt, extraction of the result text from the response data.
ExtractResultText(resp) ==
    IF Present(resp.data)
    THEN LET data == resp.data[1] IN
         IF Truthy(data.text) THEN data.text
         ELSE IF Truthy(data.content) THEN data.content
         ELSE IF Truthy(data.message) THEN data.message
         ELSE IF Truthy(data.result) THEN data.result
         ELSE StringifyData(data)
    ELSE StringifyResponse(resp)

SuccessResult(resp) ==
    [success |-> TRUE, errorType |-> ERROR_TYPE_NONE,
     resultText |-> ExtractResultText(resp)]

\* runPrompt, catch block, formatErrorDetails having returned.
SdkErrorResult(err, verb) ==
    [success |-> FALSE, errorType |-> ERROR_TYPE_SDK,
     resultText |-> <<"SDK Error: ">> \o formatErrorDetails(err, verb)]

\* The promise of runPrompt is rejected: the call has no RunPromptResult.
Rejected == [success |-> FALSE, errorType |-> "thrown", resultText |-> <<>>]

\* runPrompt, catch block: the SDK error built from the caught value, unless
\* formatErrorDetails throws; nothing catches that, so after the finally
\* block the exception leaves runPrompt.
CatchResult(err, verb) ==
    IF formatErrorDetailsThrows(err, verb) THEN Rejected
    ELSE SdkErrorResult(err, verb)

(* ------------------------- runPrompt, step by step --------------------- *)

\* The TypeError JSON.stringify raises on a response it cannot serialise:
\* for a body that refers to itself the message names the object the circle
\* starts at and the property that closes it, for a body that holds a
\* BigInt it names the type.
DumpFault(resp) ==
    << Thrown_("Error",
               IF resp.data[1].cyclic
               THEN "Converting circular structure to JSON\n    --> starting at object with constructor 'Object'\n    --- property 'self' closes the circle"
               ELSE "Do not know how to serialize a BigInt",
               "", "", "", "") >>

\* JSON.stringify accepts the response: its body, if any, is plain data.
Serialisable(resp) ==
    ~(Present(resp.data) /\ (resp.data[1].cyclic \/ resp.data[1].bigint))

\* runPrompt, the verbose dump of the prompt response inside the try block:
\* JSON.stringify(promptResponse, null, 2) is evaluated only when verbose is
\* set, and throws on a response it cannot serialise.
DebugDumpThrows(resp, verb) == verb /\ ~Serialisable(resp)

\* runPrompt, the extraction of the result text throws: none of the four
\* fields holds a text and JSON.stringify(data) rejects the body.
ExtractThrows(resp) ==
    /\ ~Serialisable(resp)
    /\ ~Truthy(resp.data[1].text)
    /\ ~Truthy(resp.data[1].content)
    /\ ~Truthy(resp.data[1].message)
    /\ ~Truthy(resp.data[1].result)

\* runPrompt after client.session.prompt returned resp: the verbose dump,
\* the error test and the extraction of the result text; a TypeError of
\* JSON.stringify is thrown inside the try block and caught.
ReturnedOutcome(resp, verb) ==
    IF DebugDumpThrows(resp, verb) THEN CatchResult(DumpFault(resp), verb)
    ELSE IF Present(resp.error) THEN ToolErrorResult(resp)
    ELSE IF ExtractThrows(resp) THEN CatchResult(DumpFault(resp), verb)
    ELSE SuccessResult(resp)

\* Fault: the finally block never deletes the session.
NeedsDelete_Never(sid) == FALSE

\* Fault: the finally block deletes whether or not a session was created.
NeedsDelete_Always(sid) == TRUE

\* runPrompt, finally block: the guard of the delete call.
NeedsDelete(sid) == sid # 0

\* Fault: the delete call is not wrapped in its own try/catch.
Caught_NotDelete(op) == op \in {"create", "prompt"}

\* runPrompt, try/catch: the catch block encloses the create and the
\* prompt call, the inner try/catch of the finally block the delete call.
Caught(op) == op \in {"create", "prompt", "delete"}

\* Fault: a fault of the delete call becomes the outcome of the prompt.
ResultAfterDelete_Masks(res, dresp) ==
    IF dresp.kind = "thrown" THEN SdkErrorResult(dresp.fault, FALSE) ELSE res

\* runPrompt, finally block: the value runPrompt returns after the delete
\* call came back with response dresp.
ResultAfterDelete(res, dresp) == res

\* Fault: cleanup is skipped, runPrompt returns straight from the try block.
AfterTry_NoFinally(sid) == "policy"

\* Position after the try and catch blocks: the finally block.
AfterTry(sid) == IF NeedsDelete(sid) THEN "session.delete" ELSE "policy"

\* The entry a client call leaves in the history.
Call(op, k, sid, text) == [op |-> op, prompt |-> k, id |-> sid, text |-> text]

\* Fault: every iteration submits the first prompt.
PromptContent_First(ps, idx) == ps[1].content

\* runPromptsSequential: the content handed to runPrompt in iteration idx
\* (0-based).
PromptContent(ps, idx) == ps[idx + 1].content

\* client.session.create and the code up to the next await.
SessionCreate ==
    /\ pc = "session.create"
    /\ \E resp \in CreateResponses(calls) :
        /\ createResp' = resp
        /\ IF resp.kind = "thrown"
           THEN /\ calls' = Append(calls, Call("create", i + 1, 0, <<>>))
                /\ sessionId' = 0
                /\ IF Caught("create")
                   THEN /\ result' = CatchResult(resp.fault, verbose)
                        /\ pc' = AfterTry(0)
                   ELSE /\ result' = result
                        /\ pc' = "uncaught"
           ELSE IF Present(resp.error) \/ ~Present(resp.data)
           THEN /\ calls' = Append(calls, Call("create", i + 1, 0, <<>>))
                /\ sessionId' = 0
                /\ result' = SessionCreationFailed(resp)
                /\ pc' = AfterTry(0)
           ELSE /\ calls' = Append(calls, Call("create", i + 1, resp.data[1].id, <<>>))
                /\ sessionId' = resp.data[1].id
                /\ result' = result
                /\ pc' = "session.prompt"
    /\ UNCHANGED <<plainValues, listing, ownsInstance, stopOnSdkError,
                   stopOnToolError,
                   verbose,
                   prompts, opencode, i, completed, toolErrors, sdkErrors,
                   exitCode, attempted, outcomes, stopped, promptResp,
                   deleteResp>>

\* client.session.prompt and the code up to the finally block.
SessionPrompt ==
    /\ pc = "session.prompt"
    /\ \E resp \in PromptResponses :
        /\ promptResp' = resp
        /\ calls' = Append(calls,
                Call("prompt", i + 1, sessionId, PromptContent(prompts, i)))
        /\ IF resp.kind = "thrown"
           THEN IF Caught("prompt")
                THEN /\ result' = CatchResult(resp.fault, verbose)
                     /\ pc' = AfterTry(sessionId)
                ELSE /\ result' = result
                     /\ pc' = "uncaught"
           ELSE /\ result' = ReturnedOutcome(resp, verbose)
                /\ pc' = AfterTry(sessionId)
    /\ UNCHANGED <<plainValues, listing, ownsInstance, stopOnSdkError,
                   stopOnToolError,
                   verbose,
                   prompts, opencode, i, sessionId, completed, toolErrors,
                   sdkErrors, exitCode, attempted, outcomes, stopped,
                   createResp, deleteResp>>

\* client.session.delete in the finally block, then runPrompt returns.
SessionDelete ==
    /\ pc = "session.delete"
    /\ \E resp \in DeleteResponses :
        /\ deleteResp' = resp
        /\ calls' = Append(calls, Call("delete", i + 1, sessionId, <<>>))
        /\ result' = ResultAfterDelete(result, resp)
        /\ pc' = IF resp.kind = "thrown" /\ ~Caught("delete")
                 THEN "uncaught" ELSE "policy"
    /\ UNCHANGED <<plainValues, listing, ownsInstance, stopOnSdkError,
                   stopOnToolError,
                   verbose,
                   prompts, opencode, i, sessionId, completed, toolErrors,
                   sdkErrors, exitCode, attempted, outcomes, stopped,
                   createResp, promptResp>>

(* ------------------------- runPromptsSequential ------------------------ *)

\* Fault: an SDK error never breaks the loop.
StopsLoop_NoSdkBreak(errorType, stopSdk, stopTool) ==
    errorType = ERROR_TYPE_TOOL /\ stopTool

\* Fault: a tool error never breaks the loop.
StopsLoop_NoToolBreak(errorType, stopSdk, stopTool) ==
    errorType = ERROR_TYPE_SDK /\ stopSdk

\* The break conditions of the loop.
StopsLoop(errorType, stopSdk, stopTool) ==
    \/ errorType = ERROR_TYPE_SDK /\ stopSdk
    \/ errorType = ERROR_TYPE_TOOL /\ stopTool

\* Fault: a tool error is counted as an SDK error as well.
SdkErrorsAfter_AlsoTool(errorType, n) ==
    IF errorType \in {ERROR_TYPE_SDK, ERROR_TYPE_TOOL} THEN n + 1 ELSE n

\* The counters after a prompt whose outcome is errorType.
SdkErrorsAfter(errorType, n) ==
    IF errorType = ERROR_TYPE_SDK THEN n + 1 ELSE n

\* Fault: tool errors are not counted.
ToolErrorsAfter_Never(errorType, n) == n

ToolErrorsAfter(errorType, n) ==
    IF errorType = ERROR_TYPE_TOOL THEN n + 1 ELSE n

\* Fault: a tool error is never counted as completed.
CompletedAfter_ToolNotCompleted(errorType, stopTool, n) ==
    IF errorType = ERROR_TYPE_NONE THEN n + 1 ELSE n

\* Fault: an SDK error is counted as completed as well.
CompletedAfter_CountsSdk(errorType, stopTool, n) ==
    IF errorType = ERROR_TYPE_TOOL /\ stopTool THEN n ELSE n + 1

CompletedAfter(errorType, stopTool, n) ==
    IF errorType = ERROR_TYPE_SDK THEN n
    ELSE IF errorType = ERROR_TYPE_TOOL THEN (IF stopTool THEN n ELSE n + 1)
    ELSE n + 1

\* Fault: the loop steps over every other prompt.
NextIndex_Skips(idx) == idx + 2

\* The increment of the for loop.
NextIndex(idx) == idx + 1

\* Fault: the loop is not wrapped in try/finally, the instance is not closed.
AfterLoop_SkipsClose(owns) == "summary"

\* Where control goes when the loop is left: the variant that owns the
\* instance closes it in a finally block, the other returns the summary.
AfterLoop(owns) == IF owns THEN "finally" ELSE "summary"

\* Fault: a failed construction reports no SDK error.
SdkErrorsOnCreateFailure_None(ps) == 0

\* The sdkErrors of the summary returned when createOpencode throws.
SdkErrorsOnCreateFailure(ps) == Len(ps)

\* createOpencode({config}) and its catch block.
CreateOpencode ==
    /\ pc = "createOpencode"
    /\ \E ok \in BOOLEAN :
        IF ok
        THEN /\ opencode' = "created"
             /\ pc' = "for"
             /\ UNCHANGED sdkErrors
        ELSE /\ opencode' = "failed"
             /\ sdkErrors' = SdkErrorsOnCreateFailure(prompts)
             /\ pc' = "summary"
    /\ UNCHANGED <<plainValues, listing, ownsInstance, stopOnSdkError,
                   stopOnToolError,
                   verbose,
                   prompts, i, sessionId, result, completed, toolErrors,
                   exitCode, calls, attempted, outcomes, stopped, createResp,
                   promptResp, deleteResp>>

\* Loop test passed: runPrompt is called with prompts[i].
LoopEnter ==
    /\ pc = "for"
    /\ i < Len(prompts)
    /\ attempted' = Append(attempted, i + 1)
    /\ sessionId' = 0
    /\ result' = NoResult
    /\ createResp' = NoResponse
    /\ promptResp' = NoResponse
    /\ deleteResp' = NoResponse
    /\ pc' = "session.create"
    /\ UNCHANGED <<plainValues, listing, ownsInstance, stopOnSdkError,
                   stopOnToolError,
                   verbose,
                   prompts, opencode, i, completed, toolErrors, sdkErrors,
                   exitCode, calls, outcomes, stopped>>

\* Loop test failed: the prompts are exhausted.
LoopExit ==
    /\ pc = "for"
    /\ i >= Len(prompts)
    /\ pc' = AfterLoop(ownsInstance)
    /\ UNCHANGED <<plainValues, listing, ownsInstance, stopOnSdkError,
                   stopOnToolError,
                   verbose,
                   prompts, opencode, i, sessionId, result, completed,
                   toolErrors, sdkErrors, exitCode, calls, attempted, outcomes,
                   stopped, createResp, promptResp, deleteResp>>

\* The if / else if / else on result.errorType after runPrompt returned.
ApplyPolicy ==
    /\ pc = "policy"
    /\ result # Rejected
    /\ outcomes' = Append(outcomes, result.errorType)
    /\ sdkErrors' = SdkErrorsAfter(result.errorType, sdkErrors)
    /\ toolErrors' = ToolErrorsAfter(result.errorType, toolErrors)
    /\ completed' = CompletedAfter(result.errorType, stopOnToolError, completed)
    /\ IF StopsLoop(result.errorType, stopOnSdkError, stopOnToolError)
       THEN /\ stopped' = TRUE
            /\ i' = i
            /\ pc' = AfterLoop(ownsInstance)
       ELSE /\ stopped' = stopped
            /\ i' = NextIndex(i)
            /\ pc' = "for"
    /\ sessionId' = 0
    /\ result' = NoResult
    /\ createResp' = NoResponse
    /\ promptResp' = NoResponse
    /\ deleteResp' = NoResponse
    /\ UNCHANGED <<plainValues, listing, ownsInstance, stopOnSdkError,
                   stopOnToolError,
                   verbose,
                   prompts, opencode, exitCode, calls, attempted>>

\* Where control goes when the await of runPrompt throws: nothing in
\* runPromptsSequential catches, the variant that owns the instance runs its
\* finally block, then the exception reaches main.
AfterThrow(owns) == IF owns THEN "finally" ELSE "fatal"

\* The await of runPrompt throws: the loop is left without an outcome for
\* the prompt in hand and without a summary.
LoopThrows ==
    /\ pc = "policy"
    /\ result = Rejected
    /\ pc' = AfterThrow(ownsInstance)
    /\ sessionId' = 0
    /\ createResp' = NoResponse
    /\ promptResp' = NoResponse
    /\ deleteResp' = NoResponse
    /\ UNCHANGED <<plainValues, listing, ownsInstance, stopOnSdkError,
                   stopOnToolError,
                   verbose, prompts, opencode, i, result, completed,
                   toolErrors, sdkErrors, exitCode, calls, attempted, outcomes,
                   stopped>>

\* The finally block around the loop: close the instance when it has a
\* close function, ignoring a fault of close; after it the summary is
\* returned, or the exception that left the loop goes on to main.
CloseOpencode ==
    /\ pc = "finally"
    /\ \E how \in {"no close function", "closed", "close threw"} :
        opencode' = how
    /\ pc' = IF result = Rejected THEN "fatal" ELSE "summary"
    /\ UNCHANGED <<plainValues, listing, ownsInstance, stopOnSdkError,
                   stopOnToolError,
                   verbose,
                   prompts, i, sessionId, result, completed, toolErrors,
                   sdkErrors, exitCode, calls, attempted, outcomes, stopped,
                   createResp, promptResp, deleteResp>>

(* --------------------------------- main -------------------------------- *)

\* The characters String.prototype.trim strips, the white space and line
\* terminators of ECMAScript: space, tab, line feed, carriage return, form
\* feed, then vertical tab (U+000B), no-break space (U+00A0), ogham space
\* mark (U+1680) and the byte order mark (U+FEFF).  The other space
\* separators (U+2000 to U+200A, U+202F, U+205F, U+3000) and the separators
\* U+2028 and U+2029 are not characters a string of this module can hold.
WhiteSpace ==
    {" ", "\t", "\n", "\r", "\f", "", " ", " ", "﻿"}

RECURSIVE TrimStart(_)
TrimStart(t) ==
    IF Len(t) > 0 /\ Head(t) \in WhiteSpace THEN TrimStart(Tail(t)) ELSE t

RECURSIVE TrimEnd(_)
TrimEnd(t) ==
    IF Len(t) > 0 /\ t[Len(t)] \in WhiteSpace
    THEN TrimEnd(SubSeq(t, 1, Len(t) - 1)) ELSE t

\* loadPromptFromFile: the trimmed contents of the file.
loadPromptFromFile(raw) == TrimEnd(TrimStart(raw))

\* main: prompts given as arguments, named prompt-1, prompt-2, ...
PromptsFromArgs(args) ==
    [k \in 1..Len(args) |->
        [name |-> <<"prompt-", ToString(k)>>, content |-> args[k]]]

\* main: the prompt of a single file, none when the file is empty.
PromptsFromFile(raw) ==
    LET content == loadPromptFromFile(raw) IN
    IF Len(content) > 0
    THEN << [name |-> <<"prompt.txt">>, content |-> content] >>
    ELSE <<>>

\* A file name is its sequence of characters.
IsDigit(c) == c \in {"0", "1", "2", "3", "4", "5", "6", "7", "8", "9"}

DigitValue(c) ==
    CASE c = "0" -> 0 [] c = "1" -> 1 [] c = "2" -> 2 [] c = "3" -> 3
      [] c = "4" -> 4 [] c = "5" -> 5 [] c = "6" -> 6 [] c = "7" -> 7
      [] c = "8" -> 8 [] c = "9" -> 9

\* Code unit of the characters the file names are made of.
CharCode(c) ==
    CASE c = "-" -> 45 [] c = "." -> 46 [] c = "a" -> 97 [] c = "t" -> 116
      [] IsDigit(c) -> 48 + DigitValue(c)

\* Length of the run of digits a name starts with.
RECURSIVE DigitRun(_)
DigitRun(s) ==
    IF Len(s) > 0 /\ IsDigit(Head(s)) THEN 1 + DigitRun(Tail(s)) ELSE 0

\* The number a sequence of digits denotes.
RECURSIVE NumberOf(_)
NumberOf(ds) ==
    IF Len(ds) = 0 THEN 0
    ELSE 10 * NumberOf(SubSeq(ds, 1, Len(ds) - 1)) + DigitValue(ds[Len(ds)])

\* The comparison of natural-orderby: names are compared chunk by chunk, a
\* run of digits against a run of digits by the numbers they denote, any
\* other character by its code; a name that ends first comes first.
RECURSIVE naturalCompare(_, _)
naturalCompare(a, b) ==
    IF Len(a) = 0 \/ Len(b) = 0
    THEN IF Len(a) = Len(b) THEN 0 ELSE IF Len(a) = 0 THEN -1 ELSE 1
    ELSE IF IsDigit(Head(a)) /\ IsDigit(Head(b))
    THEN LET na == DigitRun(a)
             nb == DigitRun(b)
             va == NumberOf(SubSeq(a, 1, na))
             vb == NumberOf(SubSeq(b, 1, nb))
         IN  IF va < vb THEN -1
             ELSE IF va > vb THEN 1
             ELSE naturalCompare(SubSeq(a, na + 1, Len(a)),
                                 SubSeq(b, nb + 1, Len(b)))
    ELSE IF CharCode(Head(a)) < CharCode(Head(b)) THEN -1
    ELSE IF CharCode(Head(a)) > CharCode(Head(b)) THEN 1
    ELSE naturalCompare(Tail(a), Tail(b))

\* orderBy of natural-orderby with its default arguments: the names in
\* ascending natural order, equal names in their given order.
RECURSIVE InsertNatural(_, _)
InsertNatural(sorted, name) ==
    IF Len(sorted) = 0 THEN <<name>>
    ELSE IF naturalCompare(name, Head(sorted)) < 0 THEN <<name>> \o sorted
    ELSE <<Head(sorted)>> \o InsertNatural(Tail(sorted), name)

RECURSIVE orderBy(_)
orderBy(names) ==
    IF Len(names) = 0 THEN <<>>
    ELSE InsertNatural(orderBy(SubSeq(names, 1, Len(names) - 1)),
                       names[Len(names)])

\* An entry of a directory: its name, whether statSync(...).isFile() holds
\* for it, and the contents readFileSync returns for it.
DirEntry(name, isFile, raw) == [name |-> name, isFile |-> isFile, raw |-> raw]

\* The entry of a directory that has the given name.
EntryNamed(entries, name) ==
    CHOOSE e \in {entries[k] : k \in 1..Len(entries)} : e.name = name

\* Fault: the files are taken in the order readdirSync lists them.
SortedFiles_AsListed(files) == files

\* loadPromptsFromDirectory: const sortedFiles = orderBy(files).
SortedFiles(files) == orderBy(files)

\* loadPromptsFromDirectory: the regular files of the directory in natural
\* order of their names, each with its trimmed contents, those with empty
\* contents left out.
loadPromptsFromDirectory(entries) ==
    LET isFile(e) == e.isFile
        files == [k \in 1..Len(SelectSeq(entries, isFile)) |->
                     SelectSeq(entries, isFile)[k].name]
        sortedFiles == SortedFiles(files)
        loaded == [k \in 1..Len(sortedFiles) |->
                      [name |-> sortedFiles[k],
                       content |-> loadPromptFromFile(
                           EntryNamed(entries, sortedFiles[k]).raw)]]
        hasContent(p) == Len(p.content) > 0
    IN  SelectSeq(loaded, hasContent)

\* File names of the directories main is pointed at.
Task1 == <<"t", "-", "1">>
Task2 == <<"t", "-", "2">>
Task9 == <<"t", "-", "9">>
Task10 == <<"t", "-", "1", "0">>

\* The directories: the three task files in every order readdirSync can list
\* them, a directory with a sub-directory among its entries, one with a
\* blank file, one with nothing but a sub-directory, and an empty one.
Directories ==
    LET f2 == DirEntry(Task2, TRUE, <<"a">>)
        f9 == DirEntry(Task9, TRUE, <<"a">>)
        f10 == DirEntry(Task10, TRUE, <<"\t", "b", "\r", "\n">>)
        sub == DirEntry(Task1, FALSE, <<>>)
        blank == DirEntry(Task1, TRUE, <<" ", "\r", "\n">>)
    IN  { <<f2, f10, f9>>, <<f2, f9, f10>>, <<f9, f2, f10>>,
          <<f9, f10, f2>>, <<f10, f2, f9>>, <<f10, f9, f2>>,
          <<f10, sub, f9>>, <<f10, blank, f2>>, <<sub>>, <<>> }

\* Lists of command-line prompts.
ArgLists == UNION { [1..n -> Contents] : n \in 1..MaxPrompts }

\* Fault: the tool-error test comes first.
ExitCodeOf_ToolFirst(sdk, tool) ==
    IF tool > 0 THEN 2 ELSE IF sdk > 0 THEN 1 ELSE 0

\* The exit code main derives from the summary.
ExitCodeOf(sdk, tool) == IF sdk > 0 THEN 1 ELSE IF tool > 0 THEN 2 ELSE 0

\* main: the test that guards the run, prompts.length === 0 negated.
HasPrompts(ps) == Len(ps) > 0

\* main up to the call of runPromptsSequential.
Collected(ps) ==
    /\ prompts' = ps
    /\ IF HasPrompts(ps)
       THEN /\ exitCode' = exitCode
            /\ pc' = IF ownsInstance THEN "createOpencode" ELSE "for"
       ELSE /\ exitCode' = 1
            /\ pc' = "exited.noPrompts"
    /\ UNCHANGED <<plainValues, ownsInstance, stopOnSdkError, stopOnToolError, verbose,
                   opencode, i, sessionId, result, completed, toolErrors,
                   sdkErrors, calls, attempted, outcomes, stopped, createResp,
                   promptResp, deleteResp>>

MainArgs ==
    /\ pc = "main"
    /\ \E args \in ArgLists : Collected(PromptsFromArgs(args))
    /\ UNCHANGED listing

MainFile ==
    /\ pc = "main"
    /\ \E raw \in RawFiles : Collected(PromptsFromFile(raw))
    /\ UNCHANGED listing

\* main with --dir, the path naming a directory: the prompts of its files.
MainDir ==
    /\ pc = "main"
    /\ \E entries \in Directories :
        /\ listing' = entries
        /\ Collected(loadPromptsFromDirectory(entries))

\* main without --dir, --file or arguments: program.help() prints the usage;
\* commander ends the process from within help() with its own exit code,
\* and process.exit(1) follows if help() returns.
MainHelp ==
    /\ pc = "main"
    /\ exitCode' \in {0, 1}
    /\ pc' = "exited.help"
    /\ UNCHANGED <<plainValues, listing, ownsInstance, stopOnSdkError,
                   stopOnToolError,
                   verbose,
                   prompts, opencode, i, sessionId, result, completed,
                   toolErrors, sdkErrors, calls, attempted, outcomes, stopped,
                   createResp, promptResp, deleteResp>>

\* main after runPromptsSequential returned: the summary and process.exit.
MainExit ==
    /\ pc = "summary"
    /\ exitCode' = ExitCodeOf(sdkErrors, toolErrors)
    /\ pc' = "exited"
    /\ UNCHANGED <<plainValues, listing, ownsInstance, stopOnSdkError,
                   stopOnToolError,
                   verbose,
                   prompts, opencode, i, sessionId, result, completed,
                   toolErrors, sdkErrors, calls, attempted, outcomes, stopped,
                   createResp, promptResp, deleteResp>>

\* main().catch: an exception that left runPromptsSequential is printed as
\* a fatal error and the process exits with 1, without a summary.
MainFatal ==
    /\ pc = "fatal"
    /\ exitCode' = 1
    /\ pc' = "exited.fatal"
    /\ UNCHANGED <<plainValues, listing, ownsInstance, stopOnSdkError,
                   stopOnToolError,
                   verbose, prompts, opencode, i, sessionId, result, completed,
                   toolErrors, sdkErrors, calls, attempted, outcomes, stopped,
                   createResp, promptResp, deleteResp>>

(* ---------------------------- specification ---------------------------- *)

Init ==
    /\ plainValues = TRUE
    /\ listing = <<>>
    /\ ownsInstance \in BOOLEAN
    /\ stopOnSdkError \in BOOLEAN
    /\ stopOnToolError \in BOOLEAN
    /\ verbose \in BOOLEAN
    /\ prompts = <<>>
    /\ pc = "main"
    /\ opencode = "none"
    /\ i = 0
    /\ sessionId = 0
    /\ result = NoResult
    /\ completed = 0
    /\ toolErrors = 0
    /\ sdkErrors = 0
    /\ exitCode = -1
    /\ calls = <<>>
    /\ attempted = <<>>
    /\ outcomes = <<>>
    /\ stopped = FALSE
    /\ createResp = NoResponse
    /\ promptResp = NoResponse
    /\ deleteResp = NoResponse

Next ==
    \/ MainArgs
    \/ MainFile
    \/ MainDir
    \/ MainHelp
    \/ CreateOpencode
    \/ LoopEnter
    \/ LoopExit
    \/ SessionCreate
    \/ SessionPrompt
    \/ SessionDelete
    \/ ApplyPolicy
    \/ CloseOpencode
    \/ MainExit

\* The runs with a client whose values JSON.stringify accepts.
Spec == Init /\ [][Next]_vars

\* The runs with a client that returns and throws any value.
InitAnyValue ==
    /\ plainValues = FALSE
    /\ listing = <<>>
    /\ ownsInstance \in BOOLEAN
    /\ stopOnSdkError \in BOOLEAN
    /\ stopOnToolError \in BOOLEAN
    /\ verbose \in BOOLEAN
    /\ prompts = <<>>
    /\ pc = "main"
    /\ opencode = "none"
    /\ i = 0
    /\ sessionId = 0
    /\ result = NoResult
    /\ completed = 0
    /\ toolErrors = 0
    /\ sdkErrors = 0
    /\ exitCode = -1
    /\ calls = <<>>
    /\ attempted = <<>>
    /\ outcomes = <<>>
    /\ stopped = FALSE
    /\ createResp = NoResponse
    /\ promptResp = NoResponse
    /\ deleteResp = NoResponse

NextAnyValue ==
    \/ Next
    \/ LoopThrows
    \/ MainFatal

SpecAnyValue == InitAnyValue /\ [][NextAnyValue]_vars

\* The run under its scheduling: main is one thread of control that takes
\* its next step whenever it has one, and every call of the client and of
\* the instance it awaits returns or throws.
FairSpec == Spec /\ WF_vars(Next)

(* ------------- the result of one submission, on its own --------------- *)

\* Longest cause chain of a thrown value.
MaxChain == 5

\* Every body a submission can return: each field absent, empty or a text.
ResultBodies ==
    { Body(t, c, m, r) : t \in {<<>>, <<"">>, <<"t">>},
                         c \in {<<>>, <<"">>, <<"c">>},
                         m \in {<<>>, <<"">>, <<"m">>},
                         r \in {<<>>, <<"">>, <<"r">>} }

\* The element at a level of a cause chain; its message names the level.
ChainElement(shape, level) ==
    CASE shape = "plain" ->
            Thrown_("Error", ToString(level), "", "", "", "")
      [] shape = "system" ->
            Thrown_("Error", ToString(level), "ECONNREFUSED", "connect",
                    "localhost", "4096")
      [] shape = "object" ->
            Thrown_("object", ToString(level), "", "", "", "")
      [] shape = "primitive" ->
            Thrown_("primitive", ToString(level), "", "", "", "")

\* Cause chains of 1 to MaxChain levels: Errors, the innermost cause an
\* Error, another object or a primitive.
FiniteChains ==
    { [k \in 1..Len(shapes) |-> ChainElement(shapes[k], k - 1)] :
        shapes \in { s \in UNION { [1..n -> {"plain", "system", "object",
                                              "primitive"}] : n \in 1..MaxChain } :
                        \A k \in 1..(Len(s) - 1) : s[k] \in {"plain", "system"} } }

\* Cause chains that run into a cycle of one or two Errors, as far as a
\* traversal of MaxChain levels sees them.
CyclicChains ==
    { [k \in 1..MaxChain |-> ChainElement(shape, (k - 1) % period)] :
        shape \in {"plain", "system"}, period \in 1..2 }

ResultInputs ==
    { Returned(<<>>, <<b>>) : b \in ResultBodies }
        \cup { Returned(<<>>, <<>>) }
        \cup { Thrown(f) : f \in FiniteChains \cup CyclicChains }

\* runPrompt received the response of the submission and has not looked at
\* it yet.
InitResult ==
    /\ plainValues = TRUE
    /\ listing = <<>>
    /\ ownsInstance \in BOOLEAN
    /\ stopOnSdkError = FALSE
    /\ stopOnToolError = FALSE
    /\ verbose \in BOOLEAN
    /\ prompts = << [name |-> <<"prompt-", "1">>, content |-> <<"a">>] >>
    /\ pc = "result"
    /\ opencode = "none"
    /\ i = 0
    /\ sessionId = 1
    /\ result = NoResult
    /\ completed = 0
    /\ toolErrors = 0
    /\ sdkErrors = 0
    /\ exitCode = -1
    /\ calls = <<>>
    /\ attempted = <<1>>
    /\ outcomes = <<>>
    /\ stopped = FALSE
    /\ createResp = NoResponse
    /\ promptResp \in ResultInputs
    /\ deleteResp = NoResponse

\* runPrompt, the try block after the submission returned.
ResultOfReturned ==
    /\ pc = "result"
    /\ promptResp.kind = "returned"
    /\ result' = ReturnedOutcome(promptResp, verbose)
    /\ pc' = "result.done"
    /\ UNCHANGED <<plainValues, listing, ownsInstance, stopOnSdkError,
                   stopOnToolError,
                   verbose, prompts, opencode, i, sessionId, completed,
                   toolErrors, sdkErrors, exitCode, calls, attempted, outcomes,
                   stopped, createResp, promptResp, deleteResp>>

\* runPrompt, the catch block after the submission threw.
ResultOfThrown ==
    /\ pc = "result"
    /\ promptResp.kind = "thrown"
    /\ result' = CatchResult(promptResp.fault, verbose)
    /\ pc' = "result.done"
    /\ UNCHANGED <<plainValues, listing, ownsInstance, stopOnSdkError,
                   stopOnToolError,
                   verbose, prompts, opencode, i, sessionId, completed,
                   toolErrors, sdkErrors, exitCode, calls, attempted, outcomes,
                   stopped, createResp, promptResp, deleteResp>>

NextResult == ResultOfReturned \/ ResultOfThrown

SpecResult == InitResult /\ [][NextResult]_vars

(* ------------------------------ properties ----------------------------- *)

\* runPromptsSequential has returned its summary.
Returned_ == pc \in {"summary", "exited"}

\* runPrompt is between its first statement and its return.
InRunPrompt == pc \in {"session.create", "session.prompt", "session.delete"}

CallsOf(op) == {k \in 1..Len(calls) : calls[k].op = op}

\* The create calls that yielded a session.
Creations == {k \in CallsOf("create") : calls[k].id # 0}

\* Sessions created and not yet sent a delete.
OpenSessions ==
    {calls[k].id : k \in {c \in Creations :
        ~\E d \in CallsOf("delete") : d > c /\ calls[d].id = calls[c].id}}

\* C1: with stopOnSdkError, the run stops at the first prompt whose outcome
\* is an SDK error: runPrompt is not called again, and no later prompt has a
\* session created or a prompt submitted.
C1_StopsAtFirstSdkError ==
    stopOnSdkError =>
        \A k \in 1..Len(outcomes) :
            outcomes[k] = ERROR_TYPE_SDK =>
                /\ k = Len(outcomes)
                /\ Len(attempted) = k
                /\ \A c \in 1..Len(calls) : calls[c].prompt <= attempted[k]
                /\ pc \in {"finally", "summary", "exited"}

C1_Witness ==
    /\ pc = "exited"
    /\ stopOnSdkError
    /\ Len(outcomes) = 2
    /\ outcomes[1] = ERROR_TYPE_NONE
    /\ outcomes[2] = ERROR_TYPE_SDK
    /\ Len(prompts) = 3
    /\ \A c \in 1..Len(calls) : calls[c].prompt <= 2

\* C2: with stopOnToolError false, the policy step of a prompt whose outcome
\* is a tool error adds one to toolErrors and one to completed, leaves
\* sdkErrors alone and goes back to the loop test with the next index; and
\* the loop test then hands the next prompt of the input, if any, to runPrompt.
C2_ToolErrorCountsAndContinues ==
    [][ /\ (pc = "policy" /\ result.errorType = ERROR_TYPE_TOOL /\ ~stopOnToolError)
            => /\ toolErrors' = toolErrors + 1
               /\ completed' = completed + 1
               /\ sdkErrors' = sdkErrors
               /\ stopped' = stopped
               /\ i' = i + 1
               /\ pc' = "for"
        /\ (pc = "for" /\ i < Len(prompts))
            => /\ pc' = "session.create"
               /\ attempted' = Append(attempted, i + 1)
      ]_vars

C2_Witness ==
    /\ ~stopOnToolError
    /\ Len(outcomes) >= 1
    /\ outcomes[1] = ERROR_TYPE_TOOL
    /\ toolErrors = 1
    /\ completed = 1
    /\ sdkErrors = 0
    /\ Len(attempted) = 2
    /\ pc = "session.create"

\* C3 as stated: on return the three counters add up to the number of
\* prompts handed to runPrompt.
C3_SumEqualsAttempted ==
    Returned_ => completed + toolErrors + sdkErrors = Len(attempted)

\* C3, amended: on return from the loop the three counters add up to the
\* number of prompts attempted plus the tool errors that were also counted
\* as completed (all of them when stopOnToolError is false, none when it is
\* true); when the OpenCode instance could not be created the sum is the
\* number of input prompts and no prompt was attempted.
C3_SumCountsToolErrorsTwice ==
    Returned_ =>
        IF opencode = "failed"
        THEN /\ completed + toolErrors + sdkErrors = Len(prompts)
             /\ attempted = <<>>
        ELSE completed + toolErrors + sdkErrors
                = Len(attempted) + (IF stopOnToolError THEN 0 ELSE toolErrors)

C3_Witness ==
    /\ pc = "exited"
    /\ ~stopOnToolError
    /\ Len(attempted) = 3
    /\ completed = 3
    /\ toolErrors = 1
    /\ sdkErrors = 0

\* C4: the exit code after a run is 1 when sdkErrors > 0, whatever
\* toolErrors is, otherwise 2 when toolErrors > 0, otherwise 0.
C4_ExitCodeFromSummary ==
    pc = "exited" =>
        /\ sdkErrors > 0 => exitCode = 1
        /\ (sdkErrors = 0 /\ toolErrors > 0) => exitCode = 2
        /\ (sdkErrors = 0 /\ toolErrors = 0) => exitCode = 0

C4_Witness ==
    /\ pc = "exited"
    /\ sdkErrors = 1
    /\ toolErrors = 2
    /\ exitCode = 1

\* C5: once runPrompt has returned, every session it created has been sent
\* a delete, whichever way the prompt submission ended.
C5_DeleteOnEveryPath ==
    ~InRunPrompt =>
        \A c \in Creations :
            \E d \in CallsOf("delete") : d > c /\ calls[d].id = calls[c].id

\* A run whose three prompts each got a session and ended by success, by an
\* error payload and by a fault of the submission.
C5_Witness ==
    /\ pc = "exited"
    /\ outcomes = <<ERROR_TYPE_NONE, ERROR_TYPE_TOOL, ERROR_TYPE_SDK>>
    /\ Cardinality(Creations) = 3
    /\ Cardinality(CallsOf("delete")) = 3

\* The delete call did not succeed.
DeleteFailed(dresp) ==
    dresp.kind = "thrown" \/ (dresp.kind = "returned" /\ Present(dresp.error))

\* C6: the delete call leaves the outcome of the prompt as the try and catch
\* blocks produced it, and after a failed delete the summary counts an SDK
\* error only if the submission raised a fault and a tool error only if the
\* submission returned an error payload.
C6_DeleteFailureNeverChangesOutcome ==
    [][ /\ pc = "session.delete" => (result' = result /\ pc' = "policy")
        /\ (pc = "policy" /\ DeleteFailed(deleteResp))
            => /\ sdkErrors' = sdkErrors
                    + (IF promptResp.kind = "thrown" THEN 1 ELSE 0)
               /\ toolErrors' = toolErrors
                    + (IF promptResp.kind = "returned" /\ Present(promptResp.error)
                       THEN 1 ELSE 0)
      ]_vars

C6_Witness ==
    /\ pc = "policy"
    /\ deleteResp.kind = "thrown"
    /\ promptResp.kind = "returned"
    /\ ~Present(promptResp.error)
    /\ result.success
    /\ result.errorType = ERROR_TYPE_NONE

\* C7: at most one session is open, and when a session is created every
\* session created before it has already been sent a delete.
C7_AtMostOneOpenSession ==
    /\ Cardinality(OpenSessions) <= 1
    /\ \A c \in CallsOf("create") :
        \A b \in Creations :
            b < c => \E d \in CallsOf("delete") :
                        b < d /\ d < c /\ calls[d].id = calls[b].id

C7_Witness ==
    /\ pc = "session.prompt"
    /\ Cardinality(Creations) = 3
    /\ Cardinality(OpenSessions) = 1

\* C8: the k-th prompt handed to runPrompt is the k-th entry of the input,
\* and a loop that ends without a break has handed over every entry.
C8_InputOrder ==
    /\ \A k \in 1..Len(attempted) : attempted[k] = k
    /\ Len(attempted) <= Len(prompts)
    /\ (Returned_ /\ ~stopped /\ opencode # "failed")
            => Len(attempted) = Len(prompts)

C8_Witness ==
    /\ pc = "exited"
    /\ attempted = <<1, 2, 3>>
    /\ ~stopped

\* C9: every prompt handed to runPrompt has exactly one create call of its
\* own (none yet while that call is pending), no two create calls yield the
\* same session, a session receives at most one submission, and the
\* submission carries the content of the prompt the session was created for.
C9_SessionsNeverReused ==
    /\ \A k \in 1..Len(attempted) :
        Cardinality({c \in CallsOf("create") : calls[c].prompt = attempted[k]})
            = (IF k = Len(attempted) /\ pc = "session.create" THEN 0 ELSE 1)
    /\ \A b, c \in Creations : calls[b].id = calls[c].id => b = c
    /\ \A p, q \in CallsOf("prompt") : calls[p].id = calls[q].id => p = q
    /\ \A p \in CallsOf("prompt") :
        \E c \in Creations :
            /\ c < p
            /\ calls[c].id = calls[p].id
            /\ calls[p].text = prompts[calls[c].prompt].content

C9_Witness ==
    /\ pc = "exited"
    /\ Cardinality(CallsOf("prompt")) = 3
    /\ \E p, q \in CallsOf("prompt") : calls[p].text # calls[q].text

\* C10: no fault of a session call leaves runPrompt or the loop, whatever
\* the client returns and throws: runPrompt always returns an outcome, no
\* exception reaches main, and the summary is returned after the last prompt
\* or after a break.
C10_NoFaultEscapes ==
    /\ pc \notin {"uncaught", "fatal", "exited.fatal"}
    /\ pc = "policy" =>
            result.errorType \in {ERROR_TYPE_NONE, ERROR_TYPE_TOOL, ERROR_TYPE_SDK}
    /\ (Returned_ /\ opencode # "failed") => (stopped \/ i = Len(prompts))

\* A run whose second submission threw an object that is not an Error and
\* that JSON.stringify rejects: the session was deleted, the instance
\* closed, and the process ended in main().catch without a summary, the
\* third prompt never attempted.
C10_Witness ==
    /\ pc = "exited.fatal"
    /\ exitCode = 1
    /\ ownsInstance
    /\ opencode = "closed"
    /\ Len(prompts) = 3
    /\ attempted = <<1, 2>>
    /\ outcomes = <<ERROR_TYPE_NONE>>
    /\ result = Rejected
    /\ ~stopped
    /\ Cardinality(CallsOf("prompt")) = 2
    /\ Cardinality(CallsOf("delete")) = 2

\* Session creation did not yield a session: it returned an error payload or
\* no data.
CreateRejected(cresp) ==
    cresp.kind = "returned" /\ (Present(cresp.error) \/ ~Present(cresp.data))

\* C11 as stated: the outcome is an SDK error when session creation returns
\* an error payload or no data or when any of the three calls raises a fault,
\* a tool error when the submission returns an error payload, success when
\* the submission returns without one.
C11_AnyFaultIsSdkError ==
    pc = "policy" =>
        /\ (\/ CreateRejected(createResp)
            \/ createResp.kind = "thrown"
            \/ promptResp.kind = "thrown"
            \/ deleteResp.kind = "thrown") => result.errorType = ERROR_TYPE_SDK
        /\ (promptResp.kind = "returned" /\ Present(promptResp.error))
                => result.errorType = ERROR_TYPE_TOOL
        /\ (promptResp.kind = "returned" /\ ~Present(promptResp.error))
                => result.errorType = ERROR_TYPE_NONE

\* C11, amended: runPrompt returns exactly one kind.  SDK error exactly when
\* session creation returns an error payload or no data, or the create or the
\* submit call raises a fault; tool error exactly when the session was
\* created and the submission returns an error payload; success exactly when
\* the submission returns without an error payload.  A fault of the delete
\* call has no part in it.
C11_Classification ==
    pc = "policy" =>
        /\ result.errorType \in {ERROR_TYPE_NONE, ERROR_TYPE_TOOL, ERROR_TYPE_SDK}
        /\ result.errorType = ERROR_TYPE_SDK
            <=> \/ CreateRejected(createResp)
                \/ createResp.kind = "thrown"
                \/ promptResp.kind = "thrown"
        /\ result.errorType = ERROR_TYPE_TOOL
            <=> /\ createResp.kind = "returned" /\ ~CreateRejected(createResp)
                /\ promptResp.kind = "returned" /\ Present(promptResp.error)
        /\ result.errorType = ERROR_TYPE_NONE
            <=> /\ createResp.kind = "returned" /\ ~CreateRejected(createResp)
                /\ promptResp.kind = "returned" /\ ~Present(promptResp.error)
        /\ result.success <=> result.errorType = ERROR_TYPE_NONE

\* The submission returned an error payload and the delete call faulted.
C11_Witness ==
    /\ pc = "policy"
    /\ promptResp.kind = "returned"
    /\ Present(promptResp.error)
    /\ deleteResp.kind = "thrown"
    /\ result.errorType = ERROR_TYPE_TOOL

\* C12: when session creation fails (error payload, no data or fault) the
\* outcome is an SDK error, and neither a submission nor a delete is ever
\* made for that prompt.
C12_CreateFailureShortCircuits ==
    /\ (pc = "policy" /\ (CreateRejected(createResp) \/ createResp.kind = "thrown"))
            => /\ result.errorType = ERROR_TYPE_SDK
               /\ promptResp = NoResponse
               /\ deleteResp = NoResponse
    /\ \A c \in CallsOf("create") :
        calls[c].id = 0 =>
            \A d \in 1..Len(calls) :
                calls[d].prompt = calls[c].prompt => d = c

\* A run whose second prompt failed at session creation and whose third
\* prompt went through.
C12_Witness ==
    /\ pc = "exited"
    /\ Len(outcomes) = 3
    /\ outcomes[2] = ERROR_TYPE_SDK
    /\ \E c \in CallsOf("create") : calls[c].prompt = 2 /\ calls[c].id = 0
    /\ \E p \in CallsOf("prompt") : calls[p].prompt = 3

\* C13: with stopOnToolError, the run stops at the first prompt whose
\* outcome is a tool error: toolErrors is raised to one, completed counts the
\* successful prompts only, and no later prompt is attempted.
C13_StopsAtFirstToolError ==
    stopOnToolError =>
        \A k \in 1..Len(outcomes) :
            outcomes[k] = ERROR_TYPE_TOOL =>
                /\ k = Len(outcomes)
                /\ Len(attempted) = k
                /\ \A c \in 1..Len(calls) : calls[c].prompt <= attempted[k]
                /\ pc \in {"finally", "summary", "exited"}
                /\ toolErrors = 1
                /\ completed =
                    Cardinality({j \in 1..Len(outcomes) : outcomes[j] = ERROR_TYPE_NONE})

C13_Witness ==
    /\ pc = "exited"
    /\ stopOnToolError
    /\ Len(prompts) = 3
    /\ outcomes = <<ERROR_TYPE_NONE, ERROR_TYPE_TOOL>>
    /\ completed = 1
    /\ toolErrors = 1
    /\ Len(attempted) = 2

\* The policy main applies when no flag is given.
DefaultPolicy == stopOnSdkError /\ ~stopOnToolError

\* The number of prompts whose outcome was errorType.
Count(errorType) ==
    Cardinality({k \in 1..Len(outcomes) : outcomes[k] = errorType})

\* C14: under the default policy, when the prompt at position k is the first
\* to yield an SDK error and the k-1 prompts before it succeeded, the summary
\* is {completed: k-1, toolErrors: 0, sdkErrors: 1}, the exit code is 1 and
\* no prompt after position k is attempted.
C14_FirstSdkErrorSummary ==
    (/\ DefaultPolicy
     /\ Returned_
     /\ Len(outcomes) >= 1
     /\ outcomes[Len(outcomes)] = ERROR_TYPE_SDK
     /\ \A j \in 1..(Len(outcomes) - 1) : outcomes[j] = ERROR_TYPE_NONE)
        => /\ completed = Len(outcomes) - 1
           /\ toolErrors = 0
           /\ sdkErrors = 1
           /\ attempted = [j \in 1..Len(outcomes) |-> j]
           /\ \A c \in 1..Len(calls) : calls[c].prompt <= Len(outcomes)
           /\ pc = "exited" => exitCode = 1

\* Three prompts, the second fails with an SDK error: {1, 0, 1}, exit code 1.
C14_Witness ==
    /\ pc = "exited"
    /\ DefaultPolicy
    /\ Len(prompts) = 3
    /\ outcomes = <<ERROR_TYPE_NONE, ERROR_TYPE_SDK>>
    /\ completed = 1
    /\ toolErrors = 0
    /\ sdkErrors = 1
    /\ exitCode = 1
    /\ attempted = <<1, 2>>

\* C15: under the default policy, a run of N prompts of which t >= 1 return
\* a tool error and none yields an SDK error attempts all N prompts, returns
\* {completed: N, toolErrors: t, sdkErrors: 0} and exits with code 2.
C15_ToolErrorsOnlySummary ==
    (/\ DefaultPolicy
     /\ Returned_
     /\ opencode # "failed"
     /\ Count(ERROR_TYPE_SDK) = 0
     /\ Count(ERROR_TYPE_TOOL) >= 1)
        => /\ Len(attempted) = Len(prompts)
           /\ completed = Len(prompts)
           /\ toolErrors = Count(ERROR_TYPE_TOOL)
           /\ sdkErrors = 0
           /\ pc = "exited" => exitCode = 2

\* Three prompts, the second returns a tool error: {3, 1, 0}, exit code 2.
C15_Witness ==
    /\ pc = "exited"
    /\ DefaultPolicy
    /\ outcomes = <<ERROR_TYPE_NONE, ERROR_TYPE_TOOL, ERROR_TYPE_NONE>>
    /\ completed = 3
    /\ toolErrors = 1
    /\ sdkErrors = 0
    /\ exitCode = 2

\* C16 as stated: on return the three counters add up to at most the number
\* of input prompts, and to exactly that number if and only if the loop was
\* not left by a break.
C16_SumAtMostInput ==
    Returned_ =>
        /\ completed + toolErrors + sdkErrors <= Len(prompts)
        /\ completed + toolErrors + sdkErrors = Len(prompts) <=> ~stopped

\* The three counters, each tool error that was also counted as completed
\* counted once.
SumOncePerPrompt ==
    completed + toolErrors + sdkErrors
        - (IF stopOnToolError THEN 0 ELSE toolErrors)

\* C16, amended: on return the three counters, with a tool error that was
\* also counted as completed counted once, add up to at most the number of
\* input prompts, and to exactly that number if and only if the loop did not
\* break before the last prompt.
C16_SumOncePerPromptAtMostInput ==
    Returned_ =>
        /\ SumOncePerPrompt <= Len(prompts)
        /\ SumOncePerPrompt = Len(prompts)
            <=> ~(stopped /\ i + 1 < Len(prompts))

\* A run that broke at its second prompt of three after a tool error that
\* was counted as completed.
C16_Witness ==
    /\ pc = "exited"
    /\ DefaultPolicy
    /\ Len(prompts) = 3
    /\ outcomes = <<ERROR_TYPE_TOOL, ERROR_TYPE_SDK>>
    /\ stopped
    /\ completed + toolErrors + sdkErrors = 3
    /\ SumOncePerPrompt = 2

\* C17: when the OpenCode instance cannot be created the run is aborted: no
\* session is created, no prompt is attempted, the summary is
\* {completed: 0, toolErrors: 0, sdkErrors: number of input prompts} and the
\* exit code is 1.
C17_ConstructionFailureAbortsRun ==
    opencode = "failed" =>
        /\ pc \in {"summary", "exited"}
        /\ calls = <<>>
        /\ attempted = <<>>
        /\ outcomes = <<>>
        /\ completed = 0
        /\ toolErrors = 0
        /\ sdkErrors = Len(prompts)
        /\ pc = "exited" => exitCode = 1

C17_Witness ==
    /\ pc = "exited"
    /\ ownsInstance
    /\ opencode = "failed"
    /\ Len(prompts) = 3
    /\ sdkErrors = 3
    /\ exitCode = 1

\* C18: when the prompt source yields no entries, runPromptsSequential is
\* never started (no instance, no session, no prompt attempted) and main
\* ends with exit code 1 without a summary, which differs from the exit code
\* a summary of {0, 0, 0} would give.
C18_EmptySourceIsConfigurationError ==
    /\ (Len(prompts) = 0 /\ pc # "main")
            => pc \in {"exited.noPrompts", "exited.help"}
    /\ pc \in {"exited.noPrompts", "exited.help"}
            => /\ prompts = <<>>
               /\ opencode = "none"
               /\ calls = <<>>
               /\ attempted = <<>>
               /\ completed = 0 /\ toolErrors = 0 /\ sdkErrors = 0
               /\ exitCode = 1
               /\ exitCode # ExitCodeOf(0, 0)

\* main called without --dir, --file and arguments: the help is printed
\* and the process ends with the exit code of a successful run.
C18_Witness ==
    /\ pc = "exited.help"
    /\ prompts = <<>>
    /\ calls = <<>>
    /\ exitCode = ExitCodeOf(0, 0)

\* C19: after a run the exit code is 0 if and only if every input prompt was
\* attempted and each of them succeeded; exit code 0 implies completed is
\* the number of input prompts and toolErrors = sdkErrors = 0.
C19_ExitZeroIffAllSucceeded ==
    pc = "exited" =>
        /\ exitCode = 0
            <=> /\ Len(attempted) = Len(prompts)
                /\ Len(outcomes) = Len(prompts)
                /\ \A k \in 1..Len(outcomes) : outcomes[k] = ERROR_TYPE_NONE
        /\ exitCode = 0
            => /\ completed = Len(prompts)
               /\ toolErrors = 0
               /\ sdkErrors = 0
               /\ ~stopped

C19_Witness ==
    /\ pc = "exited"
    /\ exitCode = 0
    /\ Len(prompts) = 3
    /\ completed = 3
    /\ outcomes = <<ERROR_TYPE_NONE, ERROR_TYPE_NONE, ERROR_TYPE_NONE>>

\* runPrompt as a function of the responses of its create and submit calls
\* and of the verbose flag.
RunPromptOutcome(cresp, presp, verb) ==
    IF cresp.kind = "thrown" THEN CatchResult(cresp.fault, verb)
    ELSE IF CreateRejected(cresp) THEN SessionCreationFailed(cresp)
    ELSE IF presp.kind = "thrown" THEN CatchResult(presp.fault, verb)
    ELSE ReturnedOutcome(presp, verb)

\* C20: the success flag and the error type runPrompt returns are those it
\* returns on the same responses with verbose on and with verbose off, and
\* the summary is determined by the error types returned.
C20_VerboseDoesNotClassify ==
    /\ pc = "policy" =>
        \A v \in BOOLEAN :
            /\ RunPromptOutcome(createResp, promptResp, v).success = result.success
            /\ RunPromptOutcome(createResp, promptResp, v).errorType = result.errorType
    /\ opencode # "failed" =>
        /\ sdkErrors = Count(ERROR_TYPE_SDK)
        /\ toolErrors = Count(ERROR_TYPE_TOOL)
        /\ completed = Count(ERROR_TYPE_NONE)
                + (IF stopOnToolError THEN 0 ELSE Count(ERROR_TYPE_TOOL))

\* A verbose runPrompt whose submission returned a body with a text that
\* JSON.stringify rejects: the debug dump threw, the outcome is an SDK
\* error, where the same responses give a success with verbose off.
C20_Witness ==
    /\ pc = "policy"
    /\ verbose
    /\ promptResp.kind = "returned"
    /\ Present(promptResp.data)
    /\ promptResp.data[1].cyclic
    /\ promptResp.data[1].text = <<"done">>
    /\ result.errorType = ERROR_TYPE_SDK
    /\ RunPromptOutcome(createResp, promptResp, FALSE).errorType = ERROR_TYPE_NONE

\* The names of the prompts main collected, in order.
PromptNames == [k \in 1..Len(prompts) |-> prompts[k].name]

\* The number a task file is named after: the digits after "t-".
TaskNumber(name) == NumberOf(SubSeq(name, 3, Len(name)))

\* The regular files of the directory read whose trimmed contents are not
\* empty.
LoadableFiles ==
    {e \in {listing[k] : k \in 1..Len(listing)} :
        e.isFile /\ loadPromptFromFile(e.raw) # <<>>}

\* C21: the prompts collected from a directory are its regular files (those
\* with non-empty contents), each once, with its trimmed contents, ordered
\* so that the numbers in their names ascend numerically: task-2, task-10,
\* task-9 are produced as task-2, task-9, task-10.
C21_NaturalOrderOfFiles ==
    listing # <<>> =>
        /\ Len(prompts) = Cardinality(LoadableFiles)
        /\ \A k \in 1..Len(prompts) :
            \E e \in LoadableFiles :
                /\ prompts[k].name = e.name
                /\ prompts[k].content = loadPromptFromFile(e.raw)
        /\ \A j, k \in 1..Len(prompts) :
            j < k => TaskNumber(prompts[j].name) < TaskNumber(prompts[k].name)
        /\ [k \in 1..Len(listing) |-> listing[k].name] = <<Task2, Task10, Task9>>
            => PromptNames = <<Task2, Task9, Task10>>

C21_Witness ==
    /\ pc = "exited"
    /\ Len(listing) = 3
    /\ listing[1].name = Task2
    /\ listing[2].name = Task10
    /\ listing[3].name = Task9
    /\ PromptNames = <<Task2, Task9, Task10>>
    /\ Len(attempted) = 3

\* The fields of a body in the order runPrompt probes them.
ProbedFields(data) == <<data.text, data.content, data.message, data.result>>

\* The probed fields that are present and not empty.
NonEmptyFields(data) ==
    {k \in 1..4 : ProbedFields(data)[k] # <<>> /\ ProbedFields(data)[k] # <<"">>}

\* C22: the result text of a successful submission is the value of the first
\* of text, content, message, result that is present and not empty; when
\* none is, it is the serialization of the body, and of the whole response
\* when the response carries no body.
C22_FirstNonEmptyField ==
    (pc = "result.done" /\ promptResp.kind = "returned") =>
        /\ result.success
        /\ result.errorType = ERROR_TYPE_NONE
        /\ IF Present(promptResp.data)
           THEN LET data == promptResp.data[1] IN
                IF NonEmptyFields(data) # {}
                THEN \E k \in NonEmptyFields(data) :
                        /\ \A j \in NonEmptyFields(data) : k <= j
                        /\ result.resultText = ProbedFields(data)[k]
                ELSE result.resultText = StringifyData(data)
           ELSE result.resultText = StringifyResponse(promptResp)

C22_Witness ==
    /\ pc = "result.done"
    /\ promptResp.kind = "returned"
    /\ Present(promptResp.data)
    /\ promptResp.data[1].text = <<"">>
    /\ promptResp.data[1].content = <<"c">>
    /\ promptResp.data[1].message = <<"m">>
    /\ result.resultText = <<"c">>

\* The parts of an error text that are messages of levels of the chain.
RECURSIVE MessagesIn(_, _)
MessagesIn(text, chain) ==
    IF Len(text) = 0 THEN <<>>
    ELSE IF Head(text) \in {chain[k].message : k \in 1..Len(chain)}
    THEN <<Head(text)>> \o MessagesIn(Tail(text), chain)
    ELSE MessagesIn(Tail(text), chain)

\* The smaller of two numbers.
Min(a, b) == IF a < b THEN a ELSE b

\* C23: the text formatErrorDetails returns for a thrown value holds the
\* messages of the value and of its causes down to depth 3, outermost first,
\* and no message of a deeper cause, however long the chain is and also when
\* it is cyclic.
C23_CauseChainToDepthThree ==
    (pc = "result.done" /\ promptResp.kind = "thrown") =>
        LET chain == promptResp.fault
            shown == Min(Len(chain), 4)
        IN  /\ result.errorType = ERROR_TYPE_SDK
            /\ Head(result.resultText) = "SDK Error: "
            /\ MessagesIn(Tail(result.resultText), chain)
                    = [k \in 1..shown |-> chain[k].message]

C23_Witness ==
    /\ pc = "result.done"
    /\ promptResp.kind = "thrown"
    /\ Len(promptResp.fault) = MaxChain
    /\ promptResp.fault[5].message = "4"
    /\ MessagesIn(Tail(result.resultText), promptResp.fault)
            = <<"0", "1", "2", "3">>

\* C24: with stopOnSdkError false, the policy step of a prompt whose outcome
\* is an SDK error adds one to sdkErrors, leaves completed and toolErrors
\* alone and goes back to the loop test with the next index; and under no
\* policy does the policy step of an SDK error change completed.
C24_SdkErrorCountsAndContinues ==
    [][ /\ (pc = "policy" /\ result.errorType = ERROR_TYPE_SDK /\ ~stopOnSdkError)
            => /\ sdkErrors' = sdkErrors + 1
               /\ completed' = completed
               /\ toolErrors' = toolErrors
               /\ stopped' = stopped
               /\ i' = i + 1
               /\ pc' = "for"
        /\ (pc = "policy" /\ result.errorType = ERROR_TYPE_SDK)
            => completed' = completed
        /\ (pc = "for" /\ i < Len(prompts))
            => /\ pc' = "session.create"
               /\ attempted' = Append(attempted, i + 1)
      ]_vars

C24_Witness ==
    /\ ~stopOnSdkError
    /\ Len(outcomes) >= 1
    /\ outcomes[1] = ERROR_TYPE_SDK
    /\ sdkErrors = 1
    /\ completed = 0
    /\ toolErrors = 0
    /\ Len(attempted) = 2
    /\ pc = "session.create"

\* The loop of runPromptsSequential is running: from its first test to the
\* policy step of the prompt in hand.
InLoop == pc = "for" \/ InRunPrompt \/ pc = "policy"

\* C25: the counters are 0 until the loop handles its first outcome, no step
\* of the run decreases one of them, inside the loop they change only in the
\* policy step of an attempted prompt, which raises each by at most one and
\* never raises both toolErrors and sdkErrors.
C25_CountersMonotone ==
    /\ []((pc \in {"main", "createOpencode"} \/ (InLoop /\ outcomes = <<>>))
            => (completed = 0 /\ toolErrors = 0 /\ sdkErrors = 0))
    /\ [][ /\ completed' >= completed
           /\ toolErrors' >= toolErrors
           /\ sdkErrors' >= sdkErrors
           /\ (InLoop /\ pc # "policy")
                => /\ completed' = completed
                   /\ toolErrors' = toolErrors
                   /\ sdkErrors' = sdkErrors
           /\ pc = "policy"
                => /\ Len(outcomes') = Len(outcomes) + 1
                   /\ Len(outcomes') <= Len(attempted)
                   /\ completed' <= completed + 1
                   /\ toolErrors' <= toolErrors + 1
                   /\ sdkErrors' <= sdkErrors + 1
                   /\ ~(toolErrors' > toolErrors /\ sdkErrors' > sdkErrors)
         ]_vars

C25_Witness ==
    /\ pc = "exited"
    /\ Len(attempted) = 3
    /\ completed = 2
    /\ toolErrors = 1
    /\ sdkErrors = 1

\* The run was stopped by a tool error: the loop was left by a break after
\* an outcome that is a tool error.
StoppedByToolError ==
    stopped /\ Len(outcomes) > 0 /\ outcomes[Len(outcomes)] = ERROR_TYPE_TOOL

\* C26: whenever the loop has dealt with the prompts attempted so far,
\* completed + sdkErrors is their number, less one if the run was stopped by
\* a tool error under stopOnToolError; the policy step of a prompt raises
\* exactly one of completed and sdkErrors by one, except for a tool error
\* that stops the run, which raises neither.
C26_CompletedPlusSdkErrors ==
    /\ []((opencode # "failed"
             /\ pc \in {"for", "finally", "summary", "exited"})
            => /\ completed + sdkErrors
                    = Len(attempted) - (IF StoppedByToolError THEN 1 ELSE 0)
               /\ StoppedByToolError => stopOnToolError)
    /\ [][ pc = "policy" =>
             IF result.errorType = ERROR_TYPE_TOOL /\ stopOnToolError
             THEN /\ completed' = completed
                  /\ sdkErrors' = sdkErrors
                  /\ stopped'
             ELSE \/ completed' = completed + 1 /\ sdkErrors' = sdkErrors
                  \/ completed' = completed /\ sdkErrors' = sdkErrors + 1
         ]_vars

C26_Witness ==
    /\ pc = "exited"
    /\ stopOnToolError
    /\ StoppedByToolError
    /\ Len(attempted) = 3
    /\ completed = 1
    /\ sdkErrors = 1

\* runPromptsSequential has been called and has not returned.
Running == pc \in {"createOpencode", "for", "finally", "policy"} \/ InRunPrompt

\* The calls of one kind made for one prompt of the input.
CallsFor(op, p) == {k \in CallsOf(op) : calls[k].prompt = p}

\* C27: when every call of the client returns or throws, a call of
\* runPromptsSequential returns; it hands no more prompts to runPrompt than
\* the input has, and makes at most one create, one prompt and one delete
\* call for a prompt, and none for a prompt it did not attempt.
C27_RunReturns ==
    /\ Running ~> Returned_
    /\ [](/\ Len(attempted) <= Len(prompts)
          /\ \A k \in 1..Len(calls) :
                \E a \in 1..Len(attempted) : attempted[a] = calls[k].prompt
          /\ \A p \in 1..Len(prompts) :
                \A op \in {"create", "prompt", "delete"} :
                    Cardinality(CallsFor(op, p)) <= 1)

C27_Witness ==
    /\ pc = "summary"
    /\ Len(prompts) = 3
    /\ Len(attempted) = 3
    /\ Len(calls) = 9

\* The finally block around the loop has run: the instance had no close
\* function, or close was called and returned, or close was called and threw.
AfterClose == opencode \in {"no close function", "closed", "close threw"}

\* C28: in the variant that owns the instance, a run that created the
\* instance has gone through the closing step exactly once when it returns,
\* however the loop ended; the step is taken after the loop, when every
\* session created has been sent its delete and every attempted prompt has
\* its outcome, it leaves the counters alone whether close returns or
\* throws, and it is not taken a second time.
C28_InstanceClosedOnce ==
    /\ []((ownsInstance /\ Returned_ /\ opencode # "failed") => AfterClose)
    /\ []((pc = "finally" \/ AfterClose)
            => (ownsInstance /\ (stopped \/ i = Len(prompts))))
    /\ [][ /\ (opencode = "created" /\ opencode' # opencode)
                => /\ pc = "finally"
                   /\ pc' = "summary"
                   /\ AfterClose'
                   /\ OpenSessions = {}
                   /\ Len(outcomes) = Len(attempted)
                   /\ calls' = calls
                   /\ completed' = completed
                   /\ toolErrors' = toolErrors
                   /\ sdkErrors' = sdkErrors
           /\ AfterClose => opencode' = opencode
         ]_vars

C28_Witness ==
    /\ pc = "exited"
    /\ ownsInstance
    /\ opencode = "close threw"
    /\ stopped
    /\ Len(attempted) = 2
    /\ sdkErrors = 1
    /\ completed = 1
    /\ exitCode = 1
====
